---- MODULE Spec2Model ----
(***************************************************************************)
(* SandboxKernelManager (examples/python-runtime-sandbox): one IPython     *)
(* kernel process, its client (iopub and shell channels), and execute()    *)
(* calls serialized by an asyncio.Lock.  The engine's coroutines are       *)
(* modelled step by step between their suspension points; the kernel       *)
(* process and the wall-clock timers are the environment.                  *)
(***************************************************************************)
EXTENDS Integers, Sequences, FiniteSets, TLC

\* ------------------------------------------------------------------ bounds
MaxQueue == 2        \* messages buffered in the iopub channel
MaxKills == 1        \* out-of-band deaths of the kernel process
MaxHooks == 2        \* start() and shutdown() calls made from outside execute()
MaxOut == 2          \* outputs of its request one collect loop reads before its timeout
DrainReads == 1      \* messages the drain loop reads before its 5 s deadline can expire

ReadyAttempts == 5   \* for attempt in range(5)
ExitError == 1
ExitTimeout == 130

DefaultTimeout == 10  \* timeout: int = 10  # Default timeout in seconds
CustomTimeout == 30   \* a request's own "timeout": 30

Callers == {"A", "B"}
\* The timeout each caller passes (it only shows in the timeout notice): "A" sends
\* none and gets the default, "B" sends its own.
Timeouts(c) == IF c = "A" THEN {DefaultTimeout} ELSE {CustomTimeout}
Codes == {"print", "raise", "flood"}
InitCode == "init"   \* "import os, pickle; os.chdir('/app')"

\* What the kernel publishes while it runs a piece of code, in order.
Script(code) ==
    CASE code = "print" -> <<"stdout", "value">>
      [] code = "raise" -> <<"stderr", "error">>
      [] code = "flood" -> <<"stdout">>
      [] OTHER -> <<>>

\* "flood" repeats its last output for ever and never ends by itself.
Endless(code) == code = "flood"

ReplyStatus(code) == IF code = "raise" THEN "error" ELSE "ok"

Min(a, b) == IF a < b THEN a ELSE b

VARIABLES
    lock,           \* self.lock: the caller holding it, or "none"
    waiters,        \* callers suspended in lock.acquire(), FIFO
    pc,             \* each caller's position
    kernel_client,  \* self.kernel_client: 0 (None) or the process it is bound to
    channels,       \* whether that client's channels are running
    has_kernel,     \* self.kernel_manager.has_kernel
    proc,           \* the kernel process: generation, alive, queue, running request
    iopub,          \* the client's publish channel
    shell,          \* the client's reply channel
    late,           \* replies sent by the kernel and not yet arrived
    next_id,        \* msg ids handed out so far + 1
    loc,            \* locals of the execute() call holding the lock
    result,         \* what each caller's execute() returned or raised
    calls,          \* execute() calls made so far
    hist,           \* history: order of lock acquisitions and channel reads
    hook            \* a start() or shutdown() called from outside execute()

vars == <<lock, waiters, pc, kernel_client, channels, has_kernel, proc, iopub,
          shell, late, next_id, loc, result, calls, hist, hook>>

NoProc == [gen |-> 0, alive |-> FALSE, queue |-> <<>>, running |-> 0, code |-> "none",
           pos |-> 0, sigint |-> FALSE, kills |-> 0, inited |-> FALSE]

\* Locals of execute(), start() and interrupt_and_drain(); the last line holds
\* what the call has observed so far (history, read by the properties only).
NoLoc == [ticket |-> 0, code |-> "none", timeout |-> 0, msg_id |-> 0,
          stdout |-> <<>>, stderr |-> <<>>, exit_code |-> 0,
          attempt |-> 0, ret |-> "none", reads |-> 0,
          heal |-> FALSE, gen_acq |-> 0, sub_gen |-> 0, got |-> <<>>,
          saw_idle |-> FALSE, timed_out |-> FALSE, interrupts |-> 0]

NoResult == [kind |-> "none"]

\* No start() or shutdown() is running outside execute(); none has been called;
\* no process has been left behind.
NoHook == [pc |-> "idle", attempt |-> 0, out |-> "none", n |-> 0, orphans |-> 0]

Init ==
    /\ lock = "none"
    /\ waiters = <<>>
    /\ pc = [c \in Callers |-> "idle"]
    /\ kernel_client = 0
    /\ channels = FALSE
    /\ has_kernel = FALSE
    /\ proc = NoProc
    /\ iopub = <<>>
    /\ shell = <<>>
    /\ late = <<>>
    /\ next_id = 1
    /\ loc = NoLoc
    /\ result = [c \in Callers |-> NoResult]
    /\ calls = 0
    /\ hist = [acquired |-> <<>>, readers |-> <<>>, returned |-> {}]
    /\ hook = NoHook

\* ------------------------------------------------------------ messages
Msg(parent, type, k) == [parent |-> parent, type |-> type, k |-> k]

Reply(parent, status) == [parent |-> parent, status |-> status]

\* The text of an output message: which request printed it, and which output it is.
Text(m) == [id |-> m.parent, k |-> m.k]

\* f"\n[Timeout after {timeout}s]"
TimeoutNotice(timeout) == [id |-> 0, k |-> timeout]

\* "Execution timed out after {timeout} seconds due to Kernel inactivity."
InactivityNotice(timeout) == [id |-> -1, k |-> timeout]

\* A message the kernel sends reaches the client only while its channels run.
Publish(q, m) == IF channels THEN Append(q, m) ELSE q

InLock == {"alive", "start", "ready", "flush", "collect", "reply", "interrupt", "drain"}

\* -------------------------------------------------- the kernel process
KernelBegin ==
    /\ proc.alive /\ proc.running = 0 /\ proc.queue # <<>>
    /\ LET req == Head(proc.queue) IN
        /\ proc' = [proc EXCEPT !.running = req.id, !.code = req.code, !.pos = 0,
                                 !.queue = Tail(proc.queue)]
        /\ iopub' = Publish(iopub, Msg(req.id, "busy", 0))
    /\ UNCHANGED <<lock, waiters, pc, kernel_client, channels, has_kernel, shell, late,
                   next_id, loc, result, calls, hist>>
    /\ UNCHANGED hook

KernelEmit ==
    /\ proc.alive /\ proc.running # 0
    /\ proc.pos < Len(Script(proc.code))
    /\ proc' = [proc EXCEPT !.pos = proc.pos + 1]
    /\ iopub' = Publish(iopub, Msg(proc.running, Script(proc.code)[proc.pos + 1], proc.pos + 1))
    /\ UNCHANGED <<lock, waiters, pc, kernel_client, channels, has_kernel, shell, late,
                   next_id, loc, result, calls, hist>>
    /\ UNCHANGED hook

KernelRepeat ==
    /\ proc.alive /\ proc.running # 0
    /\ Endless(proc.code) /\ proc.pos = Len(Script(proc.code))
    /\ Len(iopub) < MaxQueue
    /\ iopub' = Publish(iopub, Msg(proc.running, Script(proc.code)[proc.pos], proc.pos))
    /\ UNCHANGED <<lock, waiters, pc, kernel_client, channels, has_kernel, proc, shell, late,
                   next_id, loc, result, calls, hist>>
    /\ UNCHANGED hook

\* The request ends: execute_reply on the shell socket, then status idle on iopub.
KernelFinish ==
    /\ proc.alive /\ proc.running # 0
    /\ ~Endless(proc.code) /\ proc.pos = Len(Script(proc.code))
    /\ late' = Append(late, Reply(proc.running, ReplyStatus(proc.code)))
    /\ iopub' = Publish(iopub, Msg(proc.running, "idle", 0))
    /\ proc' = [proc EXCEPT !.running = 0, !.code = "none", !.pos = 0, !.sigint = FALSE]
    /\ UNCHANGED <<lock, waiters, pc, kernel_client, channels, has_kernel, shell,
                   next_id, loc, result, calls, hist>>
    /\ UNCHANGED hook

\* SIGINT ends the running request with a KeyboardInterrupt traceback.
KernelInterrupted ==
    /\ proc.alive /\ proc.running # 0 /\ proc.sigint
    /\ late' = Append(late, Reply(proc.running, "error"))
    /\ iopub' = Publish(Publish(iopub, Msg(proc.running, "error", proc.pos + 1)),
                        Msg(proc.running, "idle", 0))
    /\ proc' = [proc EXCEPT !.running = 0, !.code = "none", !.pos = 0, !.sigint = FALSE]
    /\ UNCHANGED <<lock, waiters, pc, kernel_client, channels, has_kernel, shell,
                   next_id, loc, result, calls, hist>>
    /\ UNCHANGED hook

\* The running code swallows the signal (or is in uninterruptible work).
KernelIgnoresInterrupt ==
    /\ proc.alive /\ proc.running # 0 /\ proc.sigint
    /\ proc' = [proc EXCEPT !.sigint = FALSE]
    /\ UNCHANGED <<lock, waiters, pc, kernel_client, channels, has_kernel, iopub, shell, late,
                   next_id, loc, result, calls, hist>>
    /\ UNCHANGED hook

DeliverReply ==
    /\ late # <<>>
    /\ late' = Tail(late)
    /\ shell' = IF channels THEN Append(shell, Head(late)) ELSE shell
    /\ UNCHANGED <<lock, waiters, pc, kernel_client, channels, has_kernel, proc, iopub,
                   next_id, loc, result, calls, hist>>
    /\ UNCHANGED hook

\* The process is killed out-of-band.
KillProcess ==
    /\ proc.alive /\ proc.kills < MaxKills
    /\ proc' = [proc EXCEPT !.alive = FALSE, !.queue = <<>>, !.running = 0, !.code = "none",
                             !.pos = 0, !.sigint = FALSE, !.kills = proc.kills + 1]
    /\ UNCHANGED <<lock, waiters, pc, kernel_client, channels, has_kernel, iopub, shell, late,
                   next_id, loc, result, calls, hist>>
    /\ UNCHANGED hook

Kernel ==
    \/ KernelBegin \/ KernelEmit \/ KernelRepeat \/ KernelFinish
    \/ KernelInterrupted \/ KernelIgnoresInterrupt \/ DeliverReply \/ KillProcess

\* ------------------------------------------------------- execute(): pieces
\* Mutant: the caller goes ahead although the lock is held.
LockFree_NoLock(c) == waiters # <<>> /\ Head(waiters) = c

\* async with self.lock: the lock is free and the caller is the first waiter.
LockFree(c) == lock = "none" /\ waiters # <<>> /\ Head(waiters) = c

\* Mutant: the self-healing check looks at the client only.
NeedsStart_ClientOnly == kernel_client = 0

\* Mutant: every call restarts the kernel.
NeedsStart_Always == TRUE

\* if not self.kernel_client or not self.kernel_manager.has_kernel
NeedsStart == kernel_client = 0 \/ ~has_kernel

\* Mutant: the liveness query always answers alive.
IsAlive_Always == TRUE

\* self.kernel_manager.is_alive()
IsAlive == has_kernel /\ proc.alive

\* Mutant: no correlation filter.
Correlated_Any(m, msg_id) == TRUE

\* msg.get('parent_header', {}).get('msg_id') != msg_id: continue
Correlated(m, msg_id) == m.parent = msg_id

\* Mutant: collect_io() without its execute_result / display_data branch.
Classify_NoValue(l, m) ==
    CASE m.type = "stdout" -> [l EXCEPT !.stdout = Append(@, Text(m))]
      [] m.type = "stderr" -> [l EXCEPT !.stderr = Append(@, Text(m))]
      [] m.type = "error" -> [l EXCEPT !.stderr = Append(@, Text(m))]
      [] OTHER -> l

\* The body of collect_io() for one message of the request.
Classify(l, m) ==
    CASE m.type = "stdout" -> [l EXCEPT !.stdout = Append(@, Text(m))]
      [] m.type = "stderr" -> [l EXCEPT !.stderr = Append(@, Text(m))]
      [] m.type = "value" -> [l EXCEPT !.stdout = Append(@, Text(m))]
      [] m.type = "error" -> [l EXCEPT !.stderr = Append(@, Text(m))]
      [] OTHER -> l

\* msg_type == 'status' and content['execution_state'] == 'idle'
IsIdle(m) == m.type = "idle"

\* A message that carries output text.
IsOutput(m) == m.type \in {"stdout", "stderr", "value", "error"}

\* The kernel still has the request: it runs it, or has it queued.
KernelHas(id) ==
    proc.alive /\ (proc.running = id \/ \E i \in 1..Len(proc.queue) : proc.queue[i].id = id)

\* History kept with a result: what the call was given and what it observed.
Seen(l) ==
    [ticket |-> l.ticket, code |-> l.code, timeout |-> l.timeout, msg_id |-> l.msg_id,
     heal |-> l.heal, gen_acq |-> l.gen_acq, sub_gen |-> l.sub_gen, got |-> l.got,
     saw_idle |-> l.saw_idle, timed_out |-> l.timed_out, interrupts |-> l.interrupts]

\* return "".join(stdout), "".join(stderr), exit_code
NormalResult(l, code) ==
    [kind |-> "result", stdout |-> l.stdout, stderr |-> l.stderr, exit_code |-> code,
     call |-> Seen(l), busy |-> KernelHas(l.msg_id)]

\* Mutant: the timeout reported as an error, its message replacing stderr.
TimeoutResult_AsError(l) ==
    [kind |-> "result", stdout |-> l.stdout, stderr |-> <<TimeoutNotice(l.timeout)>>,
     exit_code |-> ExitError, call |-> Seen(l), busy |-> KernelHas(l.msg_id)]

\* return "".join(stdout), "".join(stderr) + f"\n[Timeout after {timeout}s]", 130
TimeoutResult(l) ==
    [kind |-> "result", stdout |-> l.stdout,
     stderr |-> Append(l.stderr, TimeoutNotice(l.timeout)), exit_code |-> ExitTimeout,
     call |-> Seen(l), busy |-> KernelHas(l.msg_id)]

\* An exception leaves execute(): RuntimeError("Kernel process died unexpectedly
\* during startup.") or RuntimeError("Failed to start kernel after 5 attempts") out
\* of start(), after that many readiness attempts, or the error of a channel
\* operation that no except clause catches.
Raised(l, why) ==
    [kind |-> "raised", why |-> why, attempts |-> l.attempt + 1, call |-> Seen(l)]

\* History: the call now reading the publish channel.
NoteRead(h, t) ==
    IF h.readers # <<>> /\ h.readers[Len(h.readers)] = t
    THEN h ELSE [h EXCEPT !.readers = Append(@, t)]

\* Mutant: the call leaves execute() with the lock still held.
Leave_KeepLock(c, res, h) ==
    /\ result' = [result EXCEPT ![c] = res]
    /\ lock' = lock
    /\ pc' = [pc EXCEPT ![c] = "done"]
    /\ loc' = NoLoc
    /\ hist' = [h EXCEPT !.returned = @ \cup {loc.ticket}]

\* The call leaves execute(): the lock is released on the way out.
Leave(c, res, h) ==
    /\ result' = [result EXCEPT ![c] = res]
    /\ lock' = "none"
    /\ pc' = [pc EXCEPT ![c] = "done"]
    /\ loc' = NoLoc
    /\ hist' = [h EXCEPT !.returned = @ \cup {loc.ticket}]

\* ------------------------------------------------------- execute(): steps
ExecuteCall(c, code, timeout) ==
    /\ pc[c] = "idle"
    /\ c = "A" \/ calls > 0      \* the callers are alike: "A" is the one that calls first
    /\ calls' = calls + 1
    /\ pc' = [pc EXCEPT ![c] = "wait"]
    /\ waiters' = Append(waiters, c)
    /\ result' = [result EXCEPT ![c] =
                     [kind |-> "pending", ticket |-> calls + 1, code |-> code,
                      timeout |-> timeout]]
    /\ UNCHANGED <<lock, kernel_client, channels, has_kernel, proc, iopub, shell, late,
                   next_id, loc, hist>>
    /\ UNCHANGED hook

\* 1. Self-healing check, made as soon as the lock is held.
Acquire(c) ==
    /\ pc[c] = "wait"
    /\ LockFree(c)
    /\ lock' = c
    /\ waiters' = Tail(waiters)
    /\ hist' = [hist EXCEPT !.acquired = Append(@, result[c].ticket)]
    /\ LET l == [NoLoc EXCEPT !.ticket = result[c].ticket, !.code = result[c].code,
                              !.timeout = result[c].timeout,
                              !.heal = kernel_client = 0 \/ ~has_kernel \/ ~proc.alive,
                              !.gen_acq = proc.gen] IN
        IF NeedsStart
        THEN /\ loc' = [l EXCEPT !.ret = "alive"]
             /\ pc' = [pc EXCEPT ![c] = "start"]
        ELSE /\ loc' = l
             /\ pc' = [pc EXCEPT ![c] = "alive"]
    /\ UNCHANGED <<kernel_client, channels, has_kernel, proc, iopub, shell, late,
                   next_id, result, calls>>
    /\ UNCHANGED hook

\* 2. Check if the kernel is alive before executing the code.
LivenessCheck(c) ==
    /\ pc[c] = "alive"
    /\ IF IsAlive
       THEN /\ pc' = [pc EXCEPT ![c] = "flush"]
            /\ loc' = loc
       ELSE /\ pc' = [pc EXCEPT ![c] = "start"]
            /\ loc' = [loc EXCEPT !.ret = "flush"]
    /\ UNCHANGED <<lock, waiters, kernel_client, channels, has_kernel, proc, iopub, shell,
                   late, next_id, result, calls, hist>>
    /\ UNCHANGED hook

\* Mutant: the pre-flush keeps the text of what it reads.
FlushRead_Keep(c) ==
    /\ pc[c] = "flush"
    /\ iopub # <<>>
    /\ iopub' = Tail(iopub)
    /\ hist' = NoteRead(hist, loc.ticket)
    /\ loc' = [loc EXCEPT !.stdout = Append(@, Text(Head(iopub)))]
    /\ UNCHANGED <<lock, waiters, pc, kernel_client, channels, has_kernel, proc, shell, late,
                   next_id, result, calls>>
    /\ UNCHANGED hook

\* Mutant: the error of the liveness query leaves execute().
LivenessError_Propagates(c) ==
    /\ pc[c] = "alive"
    /\ Leave(c, Raised(loc, "liveness"), hist)
    /\ UNCHANGED <<waiters, kernel_client, channels, has_kernel, proc, iopub, shell, late,
                   next_id, calls>>
    /\ UNCHANGED hook

\* 2. self.kernel_manager.is_alive() raises: except Exception: pass leaves
\* is_alive False, whatever the state of the process.
LivenessError(c) ==
    /\ pc[c] = "alive"
    /\ pc' = [pc EXCEPT ![c] = "start"]
    /\ loc' = [loc EXCEPT !.ret = "flush"]
    /\ UNCHANGED <<lock, waiters, kernel_client, channels, has_kernel, proc, iopub, shell,
                   late, next_id, result, calls, hist>>
    /\ UNCHANGED hook

\* 3. Flush the IOPub channel: one message read and dropped.
FlushRead(c) ==
    /\ pc[c] = "flush"
    /\ iopub # <<>>
    /\ iopub' = Tail(iopub)
    /\ hist' = NoteRead(hist, loc.ticket)
    /\ UNCHANGED <<lock, waiters, pc, kernel_client, channels, has_kernel, proc, shell, late,
                   next_id, loc, result, calls>>
    /\ UNCHANGED hook

\* The 0.01 s read times out on an empty channel; 4. the code is submitted.
FlushEnd(c) ==
    /\ pc[c] = "flush"
    /\ iopub = <<>>
    /\ channels
    /\ hist' = NoteRead(hist, loc.ticket)
    /\ loc' = [loc EXCEPT !.msg_id = next_id, !.sub_gen = kernel_client]
    /\ next_id' = next_id + 1
    /\ proc' = IF proc.alive /\ channels
               THEN [proc EXCEPT !.queue = Append(@, [id |-> next_id, code |-> loc.code])]
               ELSE proc
    /\ pc' = [pc EXCEPT ![c] = "collect"]
    /\ UNCHANGED <<lock, waiters, kernel_client, channels, has_kernel, iopub, shell, late,
                   result, calls>>
    /\ UNCHANGED hook

\* 5. collect_io(): one message off the publish channel.
CollectRead(c) ==
    /\ pc[c] = "collect"
    /\ iopub # <<>>
    /\ Len(loc.got) < MaxOut \/ ~Correlated(Head(iopub), loc.msg_id) \/ ~IsOutput(Head(iopub))
    /\ iopub' = Tail(iopub)
    /\ hist' = NoteRead(hist, loc.ticket)
    /\ LET m == Head(iopub) IN
        IF ~Correlated(m, loc.msg_id)
        THEN /\ loc' = loc
             /\ pc' = pc
        ELSE IF IsIdle(m)
        THEN /\ loc' = [loc EXCEPT !.saw_idle = TRUE]
             /\ pc' = [pc EXCEPT ![c] = "reply"]
        ELSE /\ loc' = [Classify(loc, m) EXCEPT !.got = IF IsOutput(m) THEN Append(@, m) ELSE @]
             /\ pc' = pc
    /\ UNCHANGED <<lock, waiters, kernel_client, channels, has_kernel, proc, shell, late,
                   next_id, result, calls>>
    /\ UNCHANGED hook

\* asyncio.wait_for(collect_io(), timeout) gives up.
CollectTimeout(c) ==
    /\ pc[c] = "collect"
    /\ pc' = [pc EXCEPT ![c] = "interrupt"]
    /\ loc' = [loc EXCEPT !.timed_out = TRUE]
    /\ UNCHANGED <<lock, waiters, kernel_client, channels, has_kernel, proc, iopub, shell,
                   late, next_id, result, calls, hist>>
    /\ UNCHANGED hook

\* Mutant: the reply is looked at and left on the shell channel.
ReplyRead_Peek(c) ==
    /\ pc[c] = "reply"
    /\ shell # <<>>
    /\ shell' = shell
    /\ Leave(c, NormalResult(loc, IF Head(shell).status = "error" THEN ExitError
                                                                  ELSE loc.exit_code), hist)
    /\ UNCHANGED <<waiters, kernel_client, channels, has_kernel, proc, iopub, late,
                   next_id, calls>>
    /\ UNCHANGED hook

\* shell_msg = await asyncio.wait_for(get_shell_msg(), timeout=1.0)
ReplyRead(c) ==
    /\ pc[c] = "reply"
    /\ shell # <<>>
    /\ shell' = Tail(shell)
    /\ Leave(c, NormalResult(loc, IF Head(shell).status = "error" THEN ExitError
                                                                  ELSE loc.exit_code), hist)
    /\ UNCHANGED <<waiters, kernel_client, channels, has_kernel, proc, iopub, late,
                   next_id, calls>>
    /\ UNCHANGED hook

\* No reply within 1.0 s: asyncio.TimeoutError, caught by the same except clause.
ReplyTimeout(c) ==
    /\ pc[c] = "reply"
    /\ shell = <<>>
    /\ pc' = [pc EXCEPT ![c] = "interrupt"]
    /\ UNCHANGED <<lock, waiters, kernel_client, channels, has_kernel, proc, iopub, shell,
                   late, next_id, loc, result, calls, hist>>
    /\ UNCHANGED hook

\* ------------------------------------------------- interrupt_and_drain()
\* 1. await self.kernel_manager.interrupt_kernel(); a failure forces a restart.
\* `fails` is the outcome of signalling a process that is already dead.
Interrupt(c, fails) ==
    /\ pc[c] = "interrupt"
    /\ IF kernel_client = 0
       THEN /\ Leave(c, TimeoutResult(loc), hist)
            /\ proc' = proc
       ELSE IF ~has_kernel \/ (~proc.alive /\ fails)
       THEN /\ pc' = [pc EXCEPT ![c] = "start"]
            /\ loc' = [loc EXCEPT !.ret = "timeout", !.interrupts = 1]
            /\ UNCHANGED <<proc, lock, result, hist>>
       ELSE /\ pc' = [pc EXCEPT ![c] = "drain"]
            /\ loc' = [loc EXCEPT !.reads = 0, !.interrupts = 1]
            /\ proc' = IF proc.alive /\ proc.running # 0
                       THEN [proc EXCEPT !.sigint = TRUE] ELSE proc
            /\ UNCHANGED <<lock, result, hist>>
    /\ UNCHANGED <<waiters, kernel_client, channels, has_kernel, iopub, shell, late,
                   next_id, calls>>
    /\ UNCHANGED hook

\* Mutant: the drain loop without its test for the idle status.
DrainRead_PastIdle(c) ==
    /\ pc[c] = "drain"
    /\ iopub # <<>>
    /\ iopub' = Tail(iopub)
    /\ loc' = [loc EXCEPT !.reads = Min(loc.reads + 1, DrainReads)]
    /\ hist' = NoteRead(hist, loc.ticket)
    /\ UNCHANGED <<lock, pc, result>>
    /\ UNCHANGED <<waiters, kernel_client, channels, has_kernel, proc, shell, late,
                   next_id, calls>>
    /\ UNCHANGED hook

\* 2. msg = await self.kernel_client.get_iopub_msg(timeout=0.2): a message came.
DrainRead(c) ==
    /\ pc[c] = "drain"
    /\ iopub # <<>>
    /\ iopub' = Tail(iopub)
    /\ IF IsIdle(Head(iopub))
       THEN Leave(c, TimeoutResult(loc), NoteRead(hist, loc.ticket))
       ELSE /\ loc' = [loc EXCEPT !.reads = Min(loc.reads + 1, DrainReads)]
            /\ hist' = NoteRead(hist, loc.ticket)
            /\ UNCHANGED <<lock, pc, result>>
    /\ UNCHANGED <<waiters, kernel_client, channels, has_kernel, proc, shell, late,
                   next_id, calls>>
    /\ UNCHANGED hook

\* The 0.2 s read found the channel empty: except (...): break
DrainQuiet(c) ==
    /\ pc[c] = "drain"
    /\ iopub = <<>>
    /\ Leave(c, TimeoutResult(loc), NoteRead(hist, loc.ticket))
    /\ UNCHANGED <<waiters, kernel_client, channels, has_kernel, proc, iopub, shell, late,
                   next_id, calls>>
    /\ UNCHANGED hook

\* asyncio.timeout(5.0) expires while messages keep coming: 3. force restart.
DrainDeadline(c) ==
    /\ pc[c] = "drain"
    /\ loc.reads >= DrainReads
    /\ pc' = [pc EXCEPT ![c] = "start"]
    /\ loc' = [loc EXCEPT !.ret = "timeout", !.reads = 0]
    /\ UNCHANGED <<lock, waiters, kernel_client, channels, has_kernel, proc, iopub, shell,
                   late, next_id, result, calls, hist>>
    /\ UNCHANGED hook

\* ---------------------------------------------------------------- start()
\* 1.-2. Stop the old channels, shut the old kernel down, start a new kernel and
\* open a new client's channels.
StartLaunch(c) ==
    /\ pc[c] = "start"
    /\ proc' = [NoProc EXCEPT !.gen = proc.gen + 1, !.alive = TRUE, !.kills = proc.kills]
    /\ kernel_client' = proc.gen + 1
    /\ channels' = TRUE
    /\ has_kernel' = TRUE
    /\ iopub' = <<>>
    /\ shell' = <<>>
    /\ late' = <<>>
    /\ loc' = [loc EXCEPT !.attempt = 0]
    /\ pc' = [pc EXCEPT ![c] = "ready"]
    /\ UNCHANGED <<lock, waiters, next_id, result, calls, hist>>
    /\ UNCHANGED hook

\* 3. wait_for_ready() succeeded: the initialization routine is submitted and
\* start() returns to where it was called from.
StartReady(c) ==
    /\ pc[c] = "ready"
    /\ proc.alive /\ channels
    /\ proc' = [proc EXCEPT !.queue = Append(@, [id |-> next_id, code |-> InitCode]),
                             !.inited = TRUE]
    /\ next_id' = next_id + 1
    /\ IF loc.ret = "timeout"
       THEN Leave(c, TimeoutResult(loc), hist)
       ELSE /\ pc' = [pc EXCEPT ![c] = loc.ret]
            /\ loc' = [loc EXCEPT !.ret = "none", !.attempt = 0]
            /\ UNCHANGED <<lock, result, hist>>
    /\ UNCHANGED <<waiters, kernel_client, channels, has_kernel, iopub, shell, late, calls>>
    /\ UNCHANGED hook

\* Mutant: the retry loop never gives up.
Exhausted_Never(attempt) == FALSE

\* for attempt in range(5): the attempt that just failed was the last one.
Exhausted(attempt) == attempt + 1 = ReadyAttempts

\* Mutant: a failed start() is started over instead of raised.
StartNotReady_Retry(c) ==
    /\ pc[c] = "ready"
    /\ IF ~IsAlive \/ Exhausted(loc.attempt)
       THEN /\ pc' = [pc EXCEPT ![c] = "start"]
            /\ loc' = [loc EXCEPT !.attempt = 0]
       ELSE /\ loc' = [loc EXCEPT !.attempt = @ + 1]
            /\ pc' = pc
    /\ UNCHANGED <<lock, waiters, kernel_client, channels, has_kernel, proc, iopub, shell,
                   late, next_id, result, calls, hist, hook>>

\* Mutant: a retry goes back to launching the kernel.
StartNotReady_Relaunch(c) ==
    /\ pc[c] = "ready"
    /\ IF ~IsAlive
       THEN Leave(c, Raised(loc, "died"), hist)
       ELSE IF Exhausted(loc.attempt)
       THEN Leave(c, Raised(loc, "exhausted"), hist)
       ELSE /\ loc' = [loc EXCEPT !.attempt = @ + 1]
            /\ pc' = [pc EXCEPT ![c] = "start"]
            /\ UNCHANGED <<lock, result, hist>>
    /\ UNCHANGED <<waiters, kernel_client, channels, has_kernel, proc, iopub, shell, late,
                   next_id, calls>>
    /\ UNCHANGED hook

\* wait_for_ready() raised: dead process, or the last attempt -> RuntimeError;
\* otherwise sleep and try again.
StartNotReady(c) ==
    /\ pc[c] = "ready"
    /\ IF ~IsAlive
       THEN Leave(c, Raised(loc, "died"), hist)
       ELSE IF Exhausted(loc.attempt)
       THEN Leave(c, Raised(loc, "exhausted"), hist)
       ELSE /\ loc' = [loc EXCEPT !.attempt = @ + 1]
            /\ UNCHANGED <<lock, pc, result, hist>>
    /\ UNCHANGED <<waiters, kernel_client, channels, has_kernel, proc, iopub, shell, late,
                   next_id, calls>>
    /\ UNCHANGED hook

\* ------------------------------------------------------------ the system
Execute(c) ==
    \/ \E code \in Codes, timeout \in Timeouts(c) : ExecuteCall(c, code, timeout)
    \/ Acquire(c) \/ LivenessCheck(c)
    \/ FlushRead(c) \/ FlushEnd(c)
    \/ CollectRead(c) \/ CollectTimeout(c)
    \/ ReplyRead(c) \/ ReplyTimeout(c)
    \/ \E fails \in BOOLEAN : Interrupt(c, fails)
    \/ DrainRead(c) \/ DrainQuiet(c) \/ DrainDeadline(c)
    \/ StartLaunch(c) \/ StartReady(c) \/ StartNotReady(c)

Next == Kernel \/ \E c \in Callers : Execute(c)

Spec == Init /\ [][Next]_vars

\* execute() with a liveness query that may raise (a provisioner whose poll()
\* fails); everything else as in Next.
NextFaults == Next \/ \E c \in Callers : LivenessError(c)

SpecFaults == Init /\ [][NextFaults]_vars

\* ================================================================ properties
Done(c) == pc[c] = "done"

Returned(c) == pc[c] = "done" /\ result[c].kind = "result"

\* C1. Mutual exclusion: at most one execute() call is between acquiring the
\* mutex and returning or raising, and that call is the holder of the lock.
C1_MutualExclusion ==
    /\ Cardinality({c \in Callers : pc[c] \in InLock}) <= 1
    /\ \A c \in Callers : pc[c] \in InLock <=> lock = c

\* Two concurrent callers: one collects while the other is suspended on the lock.
C1_Witness ==
    \E c, d \in Callers : pc[c] = "collect" /\ pc[d] = "wait" /\ waiters = <<d>>

\* The texts of a sequence all come from request `id`.
OwnText(seq, id) == \A i \in 1..Len(seq) : seq[i].id = id

\* C2. No cross-request contamination: stdout and stderr of every result hold
\* only text of publish messages whose parent is the call's own request id,
\* plus the engine's timeout notice at the end of stderr.
C2_NoContamination ==
    /\ OwnText(loc.stdout, loc.msg_id) /\ OwnText(loc.stderr, loc.msg_id)
    /\ \A c \in Callers : Returned(c) =>
          /\ OwnText(result[c].stdout, result[c].call.msg_id)
          /\ \A i \in 1..Len(result[c].stderr) :
                \/ result[c].stderr[i].id = result[c].call.msg_id
                \/ /\ result[c].stderr[i] = TimeoutNotice(result[c].call.timeout)
                   /\ i = Len(result[c].stderr)
                   /\ result[c].exit_code = ExitTimeout

\* A call that follows a timed-out one is collecting: the next message in the
\* channel is output of the timed-out request, with output of its own behind it.
C2_Witness ==
    \E c, d \in Callers :
        /\ Returned(c) /\ result[c].exit_code = ExitTimeout
        /\ pc[d] = "collect"
        /\ iopub # <<>> /\ IsOutput(Head(iopub))
        /\ Head(iopub).parent = result[c].call.msg_id
        /\ \E i \in 1..Len(iopub) : IsOutput(iopub[i]) /\ iopub[i].parent = loc.msg_id

\* Position of ticket t in the order of lock acquisitions.
AcquiredAt(t) == CHOOSE i \in 1..Len(hist.acquired) : hist.acquired[i] = t

\* C3. Ordering: the call that acquired the mutex first has returned (recovery
\* and forced restart included) before the next one takes its first step, and
\* the publish-channel reads of two calls never interleave: the readers appear
\* once each, in the order of acquisition.
C3_Ordering ==
    /\ \A i \in 1..(Len(hist.acquired) - 1) : hist.acquired[i] \in hist.returned
    /\ \A i, j \in 1..Len(hist.readers) :
          i < j => /\ hist.readers[i] # hist.readers[j]
                   /\ AcquiredAt(hist.readers[i]) < AcquiredAt(hist.readers[j])

\* Two concurrent calls: the first has timed out and is in the forced restart of
\* its recovery, having read the channel; the second still waits for the lock.
C3_Witness ==
    \E c, d \in Callers :
        /\ pc[c] = "ready" /\ loc.ret = "timeout" /\ loc.timed_out
        /\ pc[d] = "wait"
        /\ hist.readers = <<loc.ticket>>

\* The engine after it has served execute("raise ..."): the kernel is idle, the
\* publish channel is read empty, the reply of that request is still unread.
ServedOnce ==
    /\ kernel_client = 1 /\ channels = TRUE /\ has_kernel = TRUE
    /\ proc = [NoProc EXCEPT !.gen = 1, !.alive = TRUE, !.inited = TRUE]
    /\ iopub = <<>> /\ shell = <<Reply(2, "error")>> /\ late = <<>>
    /\ next_id = 3

\* The engine as constructed.
Fresh ==
    /\ kernel_client = 0 /\ channels = FALSE /\ has_kernel = FALSE
    /\ proc = NoProc
    /\ iopub = <<>> /\ shell = <<>> /\ late = <<>>
    /\ next_id = 1

\* Two print requests submitted concurrently, in either order of arrival at
\* the lock, to a fresh engine or to one that has served a request before.
InitConcurrent ==
    /\ lock = "none"
    /\ waiters \in {<<"A", "B">>, <<"B", "A">>}
    /\ pc = [c \in Callers |-> "wait"]
    /\ Fresh \/ ServedOnce
    /\ loc = NoLoc
    /\ result = [c \in Callers |->
                    [kind |-> "pending", ticket |-> IF Head(waiters) = c THEN 1 ELSE 2,
                     code |-> "print", timeout |-> CHOOSE t \in Timeouts(c) : TRUE]]
    /\ calls = 2
    /\ hist = [acquired |-> <<>>, readers |-> <<>>, returned |-> {}]
    /\ hook = NoHook

Steps(c) ==
    \/ Acquire(c) \/ LivenessCheck(c)
    \/ FlushRead(c) \/ FlushEnd(c)
    \/ CollectRead(c) \/ CollectTimeout(c)
    \/ ReplyRead(c) \/ ReplyTimeout(c)
    \/ \E fails \in BOOLEAN : Interrupt(c, fails)
    \/ DrainRead(c) \/ DrainQuiet(c) \/ DrainDeadline(c)
    \/ StartLaunch(c) \/ StartReady(c) \/ StartNotReady(c)

\* The kernel serving print requests: none of them publishes without end.
KernelConcurrent ==
    \/ KernelBegin \/ KernelEmit \/ KernelFinish
    \/ KernelInterrupted \/ KernelIgnoresInterrupt \/ DeliverReply \/ KillProcess

NextConcurrent == KernelConcurrent \/ \E c \in Callers : Steps(c)

SpecConcurrent == InitConcurrent /\ [][NextConcurrent]_vars

\* The output text a request with this code and id prints when it runs to its end.
FullOutput(code, id) ==
    [i \in 1..Len(Script(code)) |-> [id |-> id, k |-> i]]

\* C4. Serialization scenario: two concurrently submitted requests that each
\* reach their own idle signal both return exit code 0, each with its own
\* output and none of the other's.
C4_Serialization ==
    \A c \in Callers :
        (Done(c) /\ result[c].call.saw_idle) =>
            /\ result[c].kind = "result"
            /\ result[c].exit_code = 0
            /\ result[c].stdout = FullOutput("print", result[c].call.msg_id)

\* stdout text of the messages read: stream stdout, execute_result, display_data.
IsStdout(m) == m.type \in {"stdout", "value"}

\* stderr text of the messages read: stream stderr, error traceback.
IsStderr(m) == m.type \in {"stderr", "error"}

Texts(seq) == [i \in 1..Len(seq) |-> Text(seq[i])]

OutText(got) == Texts(SelectSeq(got, IsStdout))

ErrText(got) == Texts(SelectSeq(got, IsStderr))

\* The timeout result the contract describes, for what the call read.
IsTimeoutResult(r) ==
    /\ r.kind = "result"
    /\ r.exit_code = ExitTimeout
    /\ r.stdout = OutText(r.call.got)
    /\ r.stderr = Append(ErrText(r.call.got), TimeoutNotice(r.call.timeout))

C6_ExitCodeOwn ==
    \A c \in Callers :
        (Returned(c) /\ result[c].call.saw_idle /\ result[c].exit_code # ExitTimeout) =>
            (result[c].exit_code = ExitError <=> ReplyStatus(result[c].call.code) = "error")

\* C7. Internal sub-timeouts are not caller-visible: a call that observed its
\* own idle returns exit code 0 or 1, without timeout notice and without an
\* interrupt having been sent.
C7_SubTimeoutsHidden ==
    \A c \in Callers :
        (Done(c) /\ result[c].call.saw_idle) =>
            /\ result[c].kind = "result"
            /\ result[c].exit_code \in {0, ExitError}
            /\ result[c].call.interrupts = 0
            /\ \A i \in 1..Len(result[c].stderr) : result[c].stderr[i].id # 0

\* C9. Self-healing: a call that found no client, no registered process or a
\* dead process when it took the lock submits its code to a process started
\* during the call, and, unless it goes into timeout recovery, returns a result.
C9_SelfHealing ==
    /\ (loc.heal /\ loc.msg_id # 0) => loc.sub_gen > loc.gen_acq
    /\ \A c \in Callers : (Done(c) /\ result[c].call.heal) =>
          /\ result[c].call.msg_id # 0 => result[c].call.sub_gen > result[c].call.gen_acq
          /\ (result[c].call.msg_id # 0 /\ result[c].call.interrupts = 0) =>
                result[c].kind = "result"

\* The process was killed between two calls; the second call restarted it and
\* returned exit code 0 with its output.
C9_Witness ==
    \E c \in Callers :
        /\ Returned(c) /\ result[c].call.heal /\ result[c].call.gen_acq > 0
        /\ result[c].exit_code = 0 /\ result[c].stdout # <<>>

\* C10. Recovery leaves the kernel usable: when a timed-out call returns its
\* exit-code-130 result, the kernel is no longer running (or holding) the
\* timed-out request.
C10_KernelUsable ==
    \A c \in Callers : (Returned(c) /\ result[c].exit_code = ExitTimeout) => ~result[c].busy

\* The event loop runs every coroutine that can take a step, and every timer that
\* is armed expires; nothing is assumed of the kernel process.
Fairness ==
    \A c \in Callers :
        /\ WF_vars(Acquire(c))
        /\ WF_vars(LivenessCheck(c))
        /\ WF_vars(FlushRead(c) \/ FlushEnd(c))
        /\ WF_vars(CollectTimeout(c))
        /\ WF_vars(ReplyRead(c) \/ ReplyTimeout(c))
        /\ WF_vars(\E fails \in BOOLEAN : Interrupt(c, fails))
        /\ WF_vars(DrainRead(c) \/ DrainQuiet(c))
        /\ WF_vars(DrainDeadline(c))
        /\ WF_vars(StartLaunch(c))
        /\ WF_vars(StartReady(c) \/ StartNotReady(c))

FairSpec == Spec /\ Fairness

\* C8. Every execute() call that has acquired the mutex eventually returns a
\* result or raises, whatever the kernel does.
C8_EventuallyReturns ==
    \A c \in Callers : (pc[c] \in InLock) ~> (pc[c] = "done")

\* The state ServedOnce describes is one the engine reaches by serving a call.
ServedOnceReached ==
    /\ ServedOnce
    /\ \E c \in Callers : Returned(c) /\ result[c].call.code = "raise" /\ result[c].call.saw_idle
    /\ lock = "none"

\* ------------------------------------------------ startup and its failures
\* The call's execute() took a step.
Stepped(c) == loc' # loc \/ pc'[c] # pc[c]

StartupFailure(r) == r.kind = "raised" /\ r.why \in {"died", "exhausted"}

\* C12. Bounded startup retry: start() makes at most 5 readiness attempts; it
\* returns only after an attempt succeeded (the process alive, the
\* initialization routine submitted); five failed attempts on a live process
\* raise; and a start() that has begun always ends.
C12_BoundedRetry ==
    /\ [](\A c \in Callers :
            /\ pc[c] = "ready" => loc.attempt < ReadyAttempts
            /\ (Done(c) /\ StartupFailure(result[c])) =>
                  /\ result[c].attempts <= ReadyAttempts
                  /\ result[c].why = "exhausted" => result[c].attempts = ReadyAttempts)
    /\ [][\A c \in Callers :
            (pc[c] = "ready" /\ pc'[c] # "ready" /\ result'[c].kind # "raised") =>
                /\ proc.alive
                /\ Len(proc'.queue) = Len(proc.queue) + 1
                /\ proc'.queue[Len(proc'.queue)].code = InitCode]_vars
    /\ \A c \in Callers : (pc[c] \in {"start", "ready"}) ~> (pc[c] \notin {"start", "ready"})

\* A start() gave up after its fifth attempt on a process that never died.
C12_Witness ==
    \E c \in Callers :
        /\ Done(c) /\ StartupFailure(result[c]) /\ result[c].why = "exhausted"
        /\ result[c].attempts = ReadyAttempts /\ proc.alive /\ proc.kills = 0

\* C13. Confirmed-dead abort: the step start() takes after a failed readiness
\* attempt on a dead process raises, whatever the attempt number, with no
\* further attempt.
C13_DeadAbort ==
    [][\A c \in Callers :
        (pc[c] = "ready" /\ ~proc.alive /\ Stepped(c)) =>
            /\ pc'[c] = "done"
            /\ result'[c].kind = "raised" /\ result'[c].why = "died"
            /\ result'[c].attempts = loc.attempt + 1
            /\ proc' = proc]_vars

\* A start() raised for a dead process at a later attempt than the first.
C13_Witness ==
    \E c \in Callers :
        Done(c) /\ StartupFailure(result[c]) /\ result[c].why = "died" /\ result[c].attempts > 1

\* C14. A startup failure is not retried within the call: when the start() of
\* the self-heal or liveness-restart step fails, that step ends the call with the
\* failure raised: no new process, no pre-flush read, no code submitted.
C14_NoRetryAfterFailure ==
    [][\A c \in Callers :
        (/\ pc[c] = "ready" /\ loc.ret # "timeout"
         /\ ~proc.alive \/ loc.attempt + 1 = ReadyAttempts
         /\ Stepped(c) /\ next_id' = next_id) =>
            /\ pc'[c] = "done" /\ lock' = "none"
            /\ StartupFailure(result'[c])
            /\ result'[c].call.msg_id = 0
            /\ \A i \in 1..Len(hist'.readers) : hist'.readers[i] # loc.ticket
            /\ proc' = proc /\ kernel_client' = kernel_client]_vars

\* A call whose self-heal start() failed raised without having submitted.
C14_Witness ==
    \E c \in Callers :
        /\ Done(c) /\ StartupFailure(result[c])
        /\ result[c].call.heal /\ result[c].call.interrupts = 0 /\ result[c].call.msg_id = 0

\* ------------------------------------------------------ across requests
\* The call returned a result other than the timeout result.
Completed(c) ==
    Returned(c) /\ result[c].exit_code # ExitTimeout /\ result[c].call.interrupts = 0

C19_InterruptOnlyOnTimeout ==
    /\ loc.interrupts > 0 => loc.timed_out
    /\ \A c \in Callers : (Done(c) /\ result[c].call.interrupts > 0) => result[c].call.timed_out

\* C20. The tester's timeout result: a call with the default timeout
\* whose collect loop timed out returns exit code 1 and the inactivity message
\* as its whole stderr.
C20_TesterTimeout ==
    \A c \in Callers :
        (Returned(c) /\ result[c].call.timed_out /\ result[c].call.timeout = DefaultTimeout) =>
            /\ result[c].exit_code = ExitError
            /\ result[c].stderr = <<InactivityNotice(DefaultTimeout)>>

\* ------------------------------ start() and shutdown() called from outside
\* The process once it is gone.
Dead(p) ==
    [p EXCEPT !.alive = FALSE, !.queue = <<>>, !.running = 0, !.code = "none",
              !.pos = 0, !.sigint = FALSE]

\* Mutant: shutdown() that leaves the client's channels open.
HookShutdown_KeepChannels ==
    /\ hook.pc = "idle" /\ hook.n < MaxHooks
    /\ hook' = [hook EXCEPT !.pc = "shutdown", !.n = @ + 1, !.out = "none"]
    /\ UNCHANGED <<channels, iopub, shell>>
    /\ UNCHANGED <<lock, waiters, pc, kernel_client, has_kernel, proc, late, next_id,
                   loc, result, calls, hist>>

\* shutdown(): if self.kernel_client: self.kernel_client.stop_channels(), up to
\* the suspension in shutdown_kernel().  No lock is taken.
HookShutdown ==
    /\ hook.pc = "idle" /\ hook.n < MaxHooks
    /\ hook' = [hook EXCEPT !.pc = "shutdown", !.n = @ + 1, !.out = "none"]
    /\ IF kernel_client # 0
       THEN channels' = FALSE /\ iopub' = <<>> /\ shell' = <<>>
       ELSE UNCHANGED <<channels, iopub, shell>>
    /\ UNCHANGED <<lock, waiters, pc, kernel_client, has_kernel, proc, late, next_id,
                   loc, result, calls, hist>>

\* shutdown(): await self.kernel_manager.shutdown_kernel() ends.  The call is
\* made whether or not a kernel was ever started (`if self.kernel_manager` is
\* always true); with no kernel ever started the manager may refuse it, and
\* nothing in shutdown() catches that.
HookShutdownKernel(raises) ==
    /\ hook.pc = "shutdown"
    /\ raises => proc.gen = 0
    /\ IF raises
       THEN /\ hook' = [hook EXCEPT !.pc = "idle", !.out = "raised"]
            /\ UNCHANGED <<proc, has_kernel>>
       ELSE /\ hook' = [hook EXCEPT !.pc = "idle", !.out = "ok"]
            /\ proc' = Dead(proc)
            /\ has_kernel' = FALSE
    /\ UNCHANGED <<lock, waiters, pc, kernel_client, channels, iopub, shell, late, next_id,
                   loc, result, calls, hist>>

\* start() 1.: stop the client's channels, force-terminate the registered
\* process.  No lock is taken.
HookStart ==
    /\ hook.pc = "idle" /\ hook.n < MaxHooks
    /\ hook' = [hook EXCEPT !.pc = "launch", !.n = @ + 1, !.out = "none"]
    /\ IF kernel_client # 0
       THEN channels' = FALSE /\ iopub' = <<>> /\ shell' = <<>>
       ELSE UNCHANGED <<channels, iopub, shell>>
    /\ IF has_kernel
       THEN proc' = Dead(proc) /\ has_kernel' = FALSE
       ELSE UNCHANGED <<proc, has_kernel>>
    /\ UNCHANGED <<lock, waiters, pc, kernel_client, late, next_id, loc, result, calls, hist>>

\* start() 2.: start_kernel() launches a process and registers it in place of
\* whatever is registered by now; a new client is bound to it.
HookStartLaunch ==
    /\ hook.pc = "launch"
    /\ hook' = [hook EXCEPT !.pc = "ready", !.attempt = 0,
                            !.orphans = @ + (IF proc.alive THEN 1 ELSE 0)]
    /\ proc' = [NoProc EXCEPT !.gen = proc.gen + 1, !.alive = TRUE, !.kills = proc.kills]
    /\ kernel_client' = proc.gen + 1
    /\ channels' = TRUE
    /\ has_kernel' = TRUE
    /\ iopub' = <<>>
    /\ shell' = <<>>
    /\ late' = <<>>
    /\ UNCHANGED <<lock, waiters, pc, next_id, loc, result, calls, hist>>

\* start() 3.: wait_for_ready() succeeded on the current client.
HookStartReady ==
    /\ hook.pc = "ready"
    /\ proc.alive /\ channels
    /\ proc' = [proc EXCEPT !.queue = Append(@, [id |-> next_id, code |-> InitCode]),
                             !.inited = TRUE]
    /\ next_id' = next_id + 1
    /\ hook' = [hook EXCEPT !.pc = "idle", !.attempt = 0, !.out = "ok"]
    /\ UNCHANGED <<lock, waiters, pc, kernel_client, channels, has_kernel, iopub, shell,
                   late, loc, result, calls, hist>>

\* start() 3.: wait_for_ready() raised.
HookStartNotReady ==
    /\ hook.pc = "ready"
    /\ IF ~IsAlive \/ Exhausted(hook.attempt)
       THEN hook' = [hook EXCEPT !.pc = "idle", !.attempt = 0, !.out = "raised"]
       ELSE hook' = [hook EXCEPT !.attempt = @ + 1]
    /\ UNCHANGED <<lock, waiters, pc, kernel_client, channels, has_kernel, proc, iopub,
                   shell, late, next_id, loc, result, calls, hist>>

Hook ==
    \/ HookShutdown \/ (\E raises \in BOOLEAN : HookShutdownKernel(raises))
    \/ HookStart \/ HookStartLaunch \/ HookStartReady \/ HookStartNotReady

\* execute() on a client whose channels were stopped under it.
\* 4. the flush loop ends on the error of its read, then
\* self.kernel_client.execute(code) raises.
SubmitClosed(c) ==
    /\ pc[c] = "flush"
    /\ ~channels
    /\ Leave(c, Raised(loc, "channel"), hist)
    /\ UNCHANGED <<waiters, kernel_client, channels, has_kernel, proc, iopub, shell, late,
                   next_id, calls, hook>>

\* 5. get_iopub_msg() raises inside collect_io(): not a TimeoutError.
CollectClosed(c) ==
    /\ pc[c] = "collect"
    /\ ~channels
    /\ Leave(c, Raised(loc, "channel"), hist)
    /\ UNCHANGED <<waiters, kernel_client, channels, has_kernel, proc, iopub, shell, late,
                   next_id, calls, hook>>

\* 5. get_shell_msg() raises: not a TimeoutError.
ReplyClosed(c) ==
    /\ pc[c] = "reply"
    /\ ~channels
    /\ Leave(c, Raised(loc, "channel"), hist)
    /\ UNCHANGED <<waiters, kernel_client, channels, has_kernel, proc, iopub, shell, late,
                   next_id, calls, hook>>

\* One caller's requests, with start() and shutdown() called around them.
NextLifecycle ==
    \/ Kernel
    \/ Execute("A")
    \/ SubmitClosed("A") \/ CollectClosed("A") \/ ReplyClosed("A")
    \/ Hook

SpecLifecycle == Init /\ [][NextLifecycle]_vars

\* C11. Propagation policy: the only error execute() raises is a startup
\* failure out of start(); every other failure of a call it makes comes back in
\* the returned result.
C11_OnlyStartupFailures ==
    \A c \in Callers : (Done(c) /\ result[c].kind = "raised") => StartupFailure(result[c])

\* C15. Kernel-facing state is touched only under the mutex: while a request
\* reads the channels, they are running, and the client is the one the request
\* was submitted on.
C15_TouchedUnderMutex ==
    \A c \in Callers :
        pc[c] \in {"flush", "collect", "reply", "drain"} =>
            /\ channels
            /\ loc.msg_id # 0 => kernel_client = loc.sub_gen

\* What shutdown() acts on.
Engine == <<kernel_client, channels, has_kernel, proc, iopub, shell>>

\* C16. Idempotent shutdown: every shutdown() completes without error, on a
\* never-started engine too, and one that finds the engine shut down leaves it
\* as it is.
C16_IdempotentShutdown ==
    [][(hook.pc = "shutdown" /\ hook'.pc = "idle") =>
          /\ hook'.out = "ok"
          /\ (~channels /\ ~has_kernel /\ ~proc.alive) => Engine' = Engine]_vars

\* C18. Single session: no process started by the engine is left running when
\* a new one is launched, and the client is bound to the latest process.
C18_SingleSession ==
    /\ hook.orphans = 0
    /\ kernel_client # 0 => kernel_client = proc.gen

\* ------------------------------------------------ execute(): the steps in order
\* A read of the publish channel: its first message is taken off.
ReadsIopub ==
    iopub # <<>> /\ iopub' = Tail(iopub) /\ kernel_client' = kernel_client /\ channels' = channels

\* A read of the reply channel: its first message is taken off.
ReadsShell ==
    shell # <<>> /\ shell' = Tail(shell) /\ kernel_client' = kernel_client /\ channels' = channels

\* C21. Step order in execute(): self-heal check, liveness re-check, pre-flush,
\* submit, collect. The code is submitted only by the step that ends the
\* pre-flush on an empty channel, and a message read during the pre-flush is
\* dropped: it changes no accumulator, and it is not of the request about to be
\* submitted, so no result holds its text.
C21_StepOrder ==
    /\ [](loc.msg_id = 0 => loc.stdout = <<>> /\ loc.stderr = <<>> /\ loc.got = <<>>)
    /\ [](\A c \in Callers : pc[c] = "flush" =>
              \A i \in 1..Len(iopub) : iopub[i].parent < next_id)
    /\ [][\A c \in Callers :
            /\ pc'[c] = "start" /\ pc[c] = "wait" => NeedsStart /\ loc'.ret = "alive"
            /\ pc'[c] = "alive" /\ pc[c] # "alive" =>
                  pc[c] = "wait" \/ (pc[c] = "ready" /\ loc.ret = "alive")
            /\ pc'[c] = "start" /\ pc[c] = "alive" => ~IsAlive /\ loc'.ret = "flush"
            /\ pc'[c] = "flush" /\ pc[c] # "flush" =>
                  pc[c] = "alive" \/ (pc[c] = "ready" /\ loc.ret = "flush")
            /\ pc'[c] = "collect" /\ pc[c] # "collect" =>
                  pc[c] = "flush" /\ iopub = <<>> /\ loc.msg_id = 0 /\ loc'.msg_id = next_id
            /\ loc'.msg_id # loc.msg_id /\ loc'.msg_id # 0 =>
                  pc[c] = "flush" \/ lock # c
            /\ pc[c] = "flush" /\ ReadsIopub =>
                  loc' = loc /\ pc' = pc /\ result' = result]_vars

\* A call in its pre-flush has read a message a timed-out call left behind.
C21_Witness ==
    \E c, d \in Callers :
        /\ pc[c] = "flush" /\ iopub = <<>>
        /\ hist.readers # <<>> /\ hist.readers[Len(hist.readers)] = loc.ticket
        /\ Returned(d) /\ result[d].exit_code = ExitTimeout /\ result[d].busy

\* C22. Parent correlation: the collect loop ends normally only on an idle
\* status whose parent is the request's own id; a message of any other parent,
\* an idle status of an earlier request or of the init routine included, is
\* dropped without ending the loop and without changing the accumulators or
\* the exit code.
C22_CollectEndsOnOwnIdle ==
    [][\A c \in Callers :
         /\ pc[c] = "collect" /\ pc'[c] = "reply" =>
               /\ iopub # <<>> /\ IsIdle(Head(iopub))
               /\ Head(iopub).parent = loc.msg_id
               /\ ReadsIopub
         /\ pc[c] = "collect" /\ ReadsIopub /\ Head(iopub).parent # loc.msg_id =>
               loc' = loc /\ pc' = pc /\ result' = result
         /\ pc[c] = "collect" /\ loc' # loc /\ pc'[c] = "collect" =>
               ReadsIopub /\ Head(iopub).parent = loc.msg_id]_vars

\* A collecting call is about to read the idle status of another request.
C22_Witness ==
    \E c \in Callers :
        /\ pc[c] = "collect" /\ loc.msg_id # 0
        /\ iopub # <<>> /\ IsIdle(Head(iopub)) /\ Head(iopub).parent # loc.msg_id
        /\ KernelHas(loc.msg_id)

\* The output messages the kernel publishes for request id running code.
ScriptMsgs(code, id) ==
    [i \in 1..Len(Script(code)) |-> Msg(id, Script(code)[i], i)]

\* The success path: the call read its own idle status and its reply.
Succeeded(c) == Returned(c) /\ result[c].call.saw_idle /\ result[c].call.interrupts = 0

\* C23. Classification and order: on the success path stdout is the text of
\* every stream-stdout and execution-value message the kernel published for the
\* request, in order, and stderr the text of every stream-stderr and error
\* message; nothing is dropped, duplicated or reordered.
C23_ClassifiedInOrder ==
    \A c \in Callers : Succeeded(c) =>
        /\ result[c].stdout =
              OutText(ScriptMsgs(result[c].call.code, result[c].call.msg_id))
        /\ result[c].stderr =
              ErrText(ScriptMsgs(result[c].call.code, result[c].call.msg_id))
        /\ result[c].call.got = ScriptMsgs(result[c].call.code, result[c].call.msg_id)

\* Two calls succeeded, one with a stream and a value, one with a stream and an error.
C23_Witness ==
    \E c, d \in Callers :
        /\ Succeeded(c) /\ result[c].call.code = "print" /\ Len(result[c].stdout) = 2
        /\ Succeeded(d) /\ result[d].call.code = "raise" /\ Len(result[d].stderr) = 2

\* C24. Reply-channel reads: a call whose collect loop timed out reads nothing
\* off the reply channel; a call of the success path reads exactly one reply,
\* after its own idle status, and returns with it.
C24_ReplyReads ==
    [][/\ ReadsShell =>
            \E c \in Callers :
                /\ pc[c] = "reply" /\ loc.saw_idle /\ ~loc.timed_out
                /\ pc'[c] = "done" /\ result'[c].kind = "result"
                /\ result'[c].exit_code # ExitTimeout
       /\ \A c \in Callers :
            /\ pc[c] \in InLock /\ loc.timed_out => ~ReadsShell
            /\ pc[c] # "done" /\ pc'[c] = "done" /\ result'[c].kind = "result"
                  /\ result'[c].exit_code # ExitTimeout => ReadsShell]_vars

\* A timed-out call returned and the reply to its request lies unread.
C24_Witness ==
    \E c \in Callers :
        /\ Returned(c) /\ result[c].call.timed_out
        /\ \E i \in 1..Len(shell) : shell[i].parent = result[c].call.msg_id

\* ------------------------------------------------- interrupt_and_drain(): claims
\* C25. Restart fallback: when the interrupt call fails, or a read of the drain
\* phase raises an error, start() is invoked before interrupt_and_drain()
\* returns, and a call that went through recovery does not leave the kernel
\* running its request.
C25_RestartFallback ==
    /\ [][\A c \in Callers :
            /\ pc[c] = "interrupt" /\ pc'[c] # "interrupt"
                  /\ kernel_client # 0 /\ ~has_kernel => pc'[c] = "start"
            /\ pc[c] = "drain" /\ pc'[c] # "drain" /\ ~channels => pc'[c] = "start"]_vars
    /\ [](\A c \in Callers : Returned(c) /\ result[c].call.interrupts = 1 => ~result[c].busy)

\* C26. Recovery-failure escalation: on the timeout path, a forced restart that
\* succeeds (the init routine is submitted) is followed by the exit-code-130
\* result with the partial output; one that fails makes execute() raise the
\* startup failure.
C26_RecoveryEscalation ==
    [][\A c \in Callers :
         pc[c] = "ready" /\ loc.ret = "timeout" /\ pc'[c] # "ready" =>
            /\ pc'[c] = "done"
            /\ result'[c].kind \in {"result", "raised"}
            /\ result'[c].kind = "result" =>
                  /\ proc'.queue = Append(proc.queue, [id |-> next_id, code |-> InitCode])
                  /\ result'[c].exit_code = ExitTimeout
                  /\ result'[c].stdout = loc.stdout
                  /\ result'[c].stderr = Append(loc.stderr, TimeoutNotice(loc.timeout))
            /\ result'[c].kind = "raised" =>
                  /\ StartupFailure(result'[c])
                  /\ proc' = proc /\ next_id' = next_id]_vars

\* One call returned 130 with partial output after its forced restart, another
\* raised because its forced restart failed.
C26_Witness ==
    \E c, d \in Callers :
        /\ Returned(c) /\ result[c].exit_code = ExitTimeout
        /\ result[c].call.interrupts = 1 /\ result[c].stdout # <<>>
        /\ ~result[c].busy /\ result[c].call.sub_gen < proc.gen
        /\ pc[d] = "done" /\ StartupFailure(result[d]) /\ result[d].call.interrupts = 1

\* C27. The drain phase is bounded: it reads one message at a time and stops at
\* the first idle status, at the first read that finds the channel quiet, or at
\* its deadline; what it reads is dropped and added to no result.
C27_DrainBounded ==
    /\ [][\A c \in Callers :
            /\ pc[c] = "drain" /\ ReadsIopub =>
                  IF IsIdle(Head(iopub))
                  THEN pc'[c] = "done" /\ result'[c] = TimeoutResult(loc)
                  ELSE /\ pc'[c] = "drain" /\ result' = result
                       /\ loc'.stdout = loc.stdout /\ loc'.stderr = loc.stderr
                       /\ loc'.got = loc.got
            /\ pc[c] = "drain" /\ pc'[c] # "drain" /\ ~ReadsIopub =>
                  \/ iopub = <<>> /\ pc'[c] = "done" /\ result'[c] = TimeoutResult(loc)
                  \/ loc.reads >= DrainReads /\ pc'[c] = "start"
                        /\ loc'.stdout = loc.stdout /\ loc'.stderr = loc.stderr]_vars
    /\ \A c \in Callers : (pc[c] = "drain") ~> (pc[c] # "drain")

\* A draining call has read and dropped a message and the idle status is next.
C27_Witness ==
    \E c \in Callers :
        /\ pc[c] = "drain" /\ loc.reads >= 1
        /\ iopub # <<>> /\ IsIdle(Head(iopub))

\* C28. interrupt_and_drain() is a no-op when there is no client or no kernel
\* process is registered: no interrupt is sent, no channel is read and no
\* restart is triggered; execute() goes on to return its timeout result.
C28_NoOpWithoutSession ==
    [][\A c \in Callers :
         pc[c] = "interrupt" /\ pc'[c] # "interrupt"
            /\ (kernel_client = 0 \/ ~has_kernel) =>
               /\ pc'[c] = "done" /\ result'[c] = TimeoutResult(loc)
               /\ proc' = proc /\ iopub' = iopub /\ kernel_client' = kernel_client]_vars

\* ---------------------------------------------------------- start(): ordering
\* Caller code the process holds: queued, or being run.
HoldsCallerCode(p) ==
    \/ \E i \in 1..Len(p.queue) : p.queue[i].code # InitCode
    \/ p.running # 0 /\ p.code # InitCode

\* C29. Initialization ordering: start() returns normally only after the
\* channels are open, the readiness check has succeeded and the init routine
\* has been submitted to the new process; so caller code is never submitted to
\* a process that has not yet received the init routine.
C29_InitFirst ==
    /\ [][\A c \in Callers :
            pc[c] = "ready" /\ pc'[c] # "ready" /\ result'[c].kind # "raised" =>
               /\ channels /\ proc.alive
               /\ proc'.queue = Append(proc.queue, [id |-> next_id, code |-> InitCode])]_vars
    /\ [](HoldsCallerCode(proc) => proc.inited)

\* ------------------------------------------------------ session state machine
\* The state of the session, read off the engine: what the call inside
\* execute() is doing, and between calls what start() left behind.
Session ==
    IF \E c \in Callers : pc[c] \in {"start", "ready"} THEN "Starting"
    ELSE IF \E c \in Callers : pc[c] \in {"interrupt", "drain"} THEN "Interrupting"
    ELSE IF \E c \in Callers : pc[c] \in {"collect", "reply"} THEN "Busy"
    ELSE IF kernel_client = 0 THEN "Uninitialized"
    ELSE IF ~proc.inited THEN "Dead"
    ELSE "Ready"

\* C30 part: Busy is entered only from Ready, by the submit.
BusyFromReady ==
    Session' = "Busy" /\ Session # "Busy" => Session = "Ready" /\ loc'.msg_id = next_id

\* C30 part: Interrupting is entered only from Busy, on a collection timeout.
InterruptingOnCollectTimeout ==
    Session' = "Interrupting" /\ Session # "Interrupting" =>
        Session = "Busy" /\ loc'.timed_out /\ ~loc.saw_idle

\* C30 part: Interrupting is left only to Ready or to Starting.
InterruptingLeaves ==
    Session = "Interrupting" /\ Session' # "Interrupting" => Session' \in {"Ready", "Starting"}

\* C30 part: Starting is entered on first use, on detected death, or when
\* recovery failed.
StartingEntered ==
    Session' = "Starting" /\ Session # "Starting" =>
        Session = "Uninitialized" \/ ~IsAlive \/ Session = "Interrupting"

\* C30 part: Dead is entered only as the outcome of a failing start().
DeadFromFailedStart ==
    Session' = "Dead" /\ Session # "Dead" =>
        Session = "Starting" /\ \E c \in Callers : pc[c] = "ready" /\ StartupFailure(result'[c])

\* C30. State-machine conformance: the session state changes only along the
\* listed edges.
C30_StateMachine ==
    [][/\ BusyFromReady
       /\ InterruptingOnCollectTimeout
       /\ InterruptingLeaves
       /\ StartingEntered
       /\ DeadFromFailedStart]_vars

C32_LockReleased ==
    /\ [][\A c \in Callers :
            pc[c] # "done" /\ pc'[c] = "done" =>
               /\ lock = c /\ lock' = "none"
               /\ result'[c].kind \in {"result", "raised"}]_vars
    /\ [](\A c \in Callers : Done(c) => lock # c)
    /\ \A c, d \in Callers : (Done(c) /\ pc[d] = "wait") ~> (pc[d] # "wait")

\* A caller holds the lock after the call before it raised a startup failure
\* out of its recovery.
C32_Witness ==
    \E c, d \in Callers :
        /\ Done(c) /\ StartupFailure(result[c]) /\ result[c].call.interrupts = 1
        /\ pc[d] \in InLock /\ lock = d

\* ---------------------------------------------------------- start(): claims
\* C33. One start() launches the kernel once and creates one client: the
\* process and the client change only in the launch step, a retry of the
\* readiness wait changes neither, and the init routine is submitted by the
\* step that ends start(), so at most once.
C33_LaunchOnce ==
    [][\A c \in Callers :
         /\ pc'[c] = "ready" /\ pc[c] # "ready" =>
               /\ pc[c] = "start"
               /\ proc'.gen = proc.gen + 1 /\ kernel_client' = proc'.gen
         /\ pc'[c] = "start" /\ pc[c] # "start" =>
               pc[c] \in {"wait", "alive", "interrupt", "drain"}
         /\ pc[c] = "ready" /\ Stepped(c) =>
               /\ proc'.gen = proc.gen /\ kernel_client' = kernel_client
               /\ pc'[c] = "ready" =>
                     /\ proc' = proc /\ next_id' = next_id
                     /\ loc'.attempt = loc.attempt + 1
               /\ next_id' # next_id =>
                     /\ pc'[c] # "ready" /\ next_id' = next_id + 1
                     /\ proc'.queue = Append(proc.queue, [id |-> next_id, code |-> InitCode])
         /\ lock = c /\ proc'.gen # proc.gen => pc[c] = "start"]_vars

\* start() is in its fourth readiness attempt on the process it launched.
C33_Witness ==
    \E c \in Callers :
        /\ pc[c] = "ready" /\ loc.attempt = 3
        /\ proc.gen = 1 /\ kernel_client = 1 /\ proc.alive /\ ~proc.inited

\* ------------------------------------------------- execute(): self-heal claims
\* C34. A startup failure does not disable the engine: the call that follows
\* one that raised a startup failure invokes start() again before it submits,
\* and submits to a process that start() brought up.
C34_RestartAfterFailure ==
    [][\A c, d \in Callers :
         pc[c] = "flush" /\ pc'[c] = "collect"
            /\ Done(d) /\ StartupFailure(result[d])
            /\ result[d].call.ticket + 1 = loc.ticket =>
               proc.gen > loc.gen_acq /\ proc.inited]_vars

\* C35. An error raised by the liveness query is treated like a not-alive
\* answer: nothing leaves execute(), start() is invoked, and the call goes on
\* to its pre-flush and submit only out of a start() that succeeded.
C35_LivenessErrorAbsorbed ==
    [][\A c \in Callers :
         /\ pc[c] = "alive" /\ Stepped(c) =>
               /\ result' = result /\ lock' = lock
               /\ IF pc'[c] = "flush" THEN IsAlive
                  ELSE pc'[c] = "start" /\ loc'.ret = "flush"
               /\ proc' = proc /\ next_id' = next_id
         /\ pc[c] = "ready" /\ pc'[c] = "flush" =>
               /\ proc.alive /\ proc'.inited
               /\ proc'.queue = Append(proc.queue, [id |-> next_id, code |-> InitCode])
         /\ loc'.msg_id # loc.msg_id /\ loc'.msg_id # 0 /\ lock = c => pc[c] = "flush"]_vars

\* A call found the kernel alive when it took the lock, restarted it before
\* submitting although nothing had killed it, and completed on the new process.
C35_Witness ==
    \E c \in Callers :
        /\ Completed(c) /\ ~result[c].call.heal /\ proc.kills = 0
        /\ result[c].call.sub_gen > result[c].call.gen_acq
        /\ result[c].stdout # <<>>

\* Positions of engine-made text in a sequence of texts.
Injected(seq) == {i \in 1..Len(seq) : seq[i].id <= 0}

C37_ExecuteAfterShutdown ==
    [][\A c \in Callers :
         /\ pc[c] = "wait" /\ pc'[c] # "wait" /\ ~has_kernel =>
               pc'[c] = "start" /\ loc'.ret = "alive" /\ loc'.heal
         /\ pc[c] = "flush" /\ pc'[c] = "collect" /\ loc.heal =>
               /\ loc'.sub_gen > loc.gen_acq
               /\ proc.alive => proc.gen > loc.gen_acq]_vars

\* start(), then shutdown(), then an execute() call that completed with output
\* on the second process.
C37_Witness ==
    \E c \in Callers :
        /\ Completed(c) /\ result[c].call.heal /\ result[c].stdout # <<>>
        /\ result[c].call.gen_acq = 1 /\ result[c].call.sub_gen = 2
        /\ hook.n = 2 /\ hook.pc = "idle" /\ hook.out = "ok" /\ hook.orphans = 0
        /\ proc.gen = 2 /\ proc.kills = 0 /\ has_kernel /\ proc.alive

====
